---------------------------- MODULE Spec2Model ----------------------------
(***************************************************************************)
(* A model of procal (src/procal.py): the BinaryView bit table, the input  *)
(* line, the result field and the two check boxes of the main window.      *)
(*                                                                         *)
(* Python numbers are unbounded integers and IEEE-754 doubles; the values  *)
(* the program handles reach 2^64, beyond the integers TLC can compute     *)
(* with.  A number is therefore a record                                   *)
(*     [kind, neg, m, e]                                                   *)
(* whose magnitude is the sum of 2^(i + e) over the bit positions i in m.  *)
(* kind is "int" (e = 0), "float" (a finite double, m = {} or 0 \in m),    *)
(* "inf", "nan", or "None".                                                *)
(***************************************************************************)
EXTENDS Integers, Sequences, FiniteSets, TLC

VARIABLES
    mode,                    \* BinaryView.mode
    n_bits,                  \* BinaryView.n_bits
    table_elements,          \* BinaryView.table_elements: the BinaryTableItems
    error_message,           \* BinaryView.error_message
    previously_clicked_cell, \* BinaryView.previously_clicked_cell
    text,                    \* InputLabel.text(): what the expression evaluates to
    binary_result,           \* ResultField: what set_result last displayed
    check_64b,               \* MainWindow.check_64b: [checked, enabled]
    check_flt,               \* MainWindow.check_flt: checked
    gestures,                \* mouse gestures so far (bounded)
    last                     \* the handler that ran last, with its argument

vars == <<mode, n_bits, table_elements, error_message, previously_clicked_cell,
          text, binary_result, check_64b, check_flt, gestures, last>>

-----------------------------------------------------------------------------
(* Bounds of the model. *)

\* Mouse gestures (presses, drags) in a run.
MaxGestures == 1

-----------------------------------------------------------------------------
(* Sets of bit positions as magnitudes. *)

Min(S) == CHOOSE x \in S : \A y \in S : x <= y

Max(S) == -Min({-x : x \in S})

\* m + 2^k: the carry stops at the first position from k up that is clear.
AddPow2(m, k) ==
    LET j == Min({i \in k..(k + Cardinality(m)) : i \notin m})
    IN (m \ (k..(j - 1))) \cup {j}

\* m - 2^k for m >= 2^k: the borrow stops at the first position from k up
\* that is set.
SubPow2(m, k) ==
    LET j == Min({i \in m : i >= k})
    IN (m \ {j}) \cup (k..(j - 1))

\* a + b: the positions set in one of the two, plus the carries out of the
\* positions set in both.
RECURSIVE AddMag(_, _)
AddMag(a, b) ==
    IF a \cap b = {} THEN a \cup b
    ELSE AddMag((a \cup b) \ (a \cap b), {i + 1 : i \in a \cap b})

\* a * b, by shifting a and adding, once for each position of b.
RECURSIVE ShiftAndAdd(_, _)
ShiftAndAdd(a, b) ==
    IF b = {} THEN {}
    ELSE LET k == Min(b) IN AddMag({i + k : i \in a}, ShiftAndAdd(a, b \ {k}))

MulMag(a, b) ==
    IF Cardinality(a) < Cardinality(b) THEN ShiftAndAdd(b, a) ELSE ShiftAndAdd(a, b)

\* a < b.
MagLess(a, b) ==
    /\ a # b
    /\ Max((a \ b) \cup (b \ a)) \in b

\* The small integer a set of positions stands for, and back.
RECURSIVE Val(_)
Val(m) == IF m = {} THEN 0 ELSE LET k == Max(m) IN 2^k + Val(m \ {k})

RECURSIVE BitsOf(_)
BitsOf(n) ==
    IF n = 0 THEN {}
    ELSE {i + 1 : i \in BitsOf(n \div 2)} \cup (IF n % 2 = 1 THEN {0} ELSE {})

\* m rounded to a multiple of 2^cut, ties to even.
RoundHalfEven(m, cut) ==
    LET kept   == {i \in m : i >= cut}
        half   == (cut - 1) \in m
        sticky == \E i \in m : i < cut - 1
        odd    == cut \in m
    IN IF half /\ (sticky \/ odd) THEN AddPow2(kept, cut) ELSE kept

-----------------------------------------------------------------------------
(* Python numbers. *)

None == [kind |-> "None", neg |-> FALSE, m |-> {}, e |-> 0]

\* A Python int.
PyInt(neg, m) == [kind |-> "int", neg |-> neg /\ m # {}, m |-> m, e |-> 0]

\* A finite Python float of magnitude m * 2^e (m of at most DoublePrecision bits).
PyFloat(neg, m, e) ==
    IF m = {} THEN [kind |-> "float", neg |-> neg, m |-> {}, e |-> 0]
    ELSE LET lo == Min(m)
         IN [kind |-> "float", neg |-> neg, m |-> {i - lo : i \in m}, e |-> e + lo]

PyInf(neg) == [kind |-> "inf", neg |-> neg, m |-> {}, e |-> 0]

PyNaN == [kind |-> "nan", neg |-> FALSE, m |-> {}, e |-> 0]

\* Significant bits of a double: float() and float arithmetic round to them.
DoublePrecision == 53

\* The double nearest to magnitude m * 2^e (within the doubles' normal range).
RoundDouble(neg, m, e) ==
    IF m = {} \/ Max(m) - Min(m) < DoublePrecision THEN PyFloat(neg, m, e)
    ELSE PyFloat(neg, RoundHalfEven(m, Max(m) - (DoublePrecision - 1)), e)

\* float(x) of a Python number.
float(x) == IF x.kind = "int" THEN RoundDouble(x.neg, x.m, 0) ELSE x

\* x.is_integer() of a Python float.
is_integer(x) == x.kind = "float" /\ x.e >= 0

\* int(x) of a Python float holding an integer.
int(x) == PyInt(x.neg, {i + x.e : i \in x.m})

\* Bit i of Python int x, negative ints in (unbounded) two's complement.
TestBit(x, i) == IF x.neg THEN i \notin SubPow2(x.m, 0) ELSE i \in x.m

\* -x, written ~x + 1 in the source.
PyNeg(x) == [x EXCEPT !.neg = ~x.neg /\ x.m # {}]

\* x & ((1 << n) - 1): the bits TestBit gives at positions 0..n-1.
LowBits(x, n) ==
    PyInt(FALSE, IF x.neg THEN (0..(n - 1)) \ SubPow2(x.m, 0)
                 ELSE x.m \cap (0..(n - 1)))

\* x >= 2**n of a Python int.
AtLeastPow2(x, n) == ~x.neg /\ ~MagLess(x.m, {n})

\* 2 ** k: an int for k >= 0, a float otherwise.
PyPow2(k) == IF k >= 0 THEN PyInt(FALSE, {k}) ELSE PyFloat(FALSE, {0}, k)

\* x * y of finite numbers: a float (rounded) unless both are ints.
PyMul(x, y) ==
    LET neg == x.neg # y.neg
        m   == MulMag(x.m, y.m)
    IN IF x.kind = "int" /\ y.kind = "int" THEN PyInt(neg, m)
       ELSE RoundDouble(neg, m, x.e + y.e)

\* x / 2**k of a finite number (true division: a float).
PyDivPow2(x, k) == RoundDouble(x.neg, x.m, x.e - k)

\* x + y of finite non-negative numbers, one of them a float.
PyAdd(x, y) ==
    LET lo == IF x.e < y.e THEN x.e ELSE y.e
    IN RoundDouble(FALSE,
                   AddMag({i + x.e - lo : i \in x.m}, {i + y.e - lo : i \in y.m}),
                   lo)

-----------------------------------------------------------------------------
(* to_float and struct.pack('>f', ...). *)

\* Field with a mask one bit short (0x7F for 0xFF): a fault C9 tells apart.
FieldShortMask(value, lo, width) ==
    Val({i - lo : i \in {j \in value.m : lo <= j /\ j < lo + width - 1}})

\* (value >> lo) & (2^width - 1) of a non-negative Python int, as an integer.
Field(value, lo, width) ==
    Val({i - lo : i \in {j \in value.m : lo <= j /\ j < lo + width}})

\* An f-string or '' as the sequence of its pieces.
EmptyString == << >>

to_float(value) ==
    LET sign     == Field(value, 31, 1)
        exponent == Field(value, 23, 8)
        fraction == LowBits(value, 23)                     \* value & 0x7FFFFF
        unit     == PyInt(sign = 1, {0})                   \* (-1) ** (sign)
        frac     == PyDivPow2(fraction, 23)                \* fraction / (2**23)
        mantissa == PyAdd(PyInt(FALSE, {0}), frac)         \* 1 + fraction / (2**23)
    IN IF exponent = 255 THEN
           [literal |-> IF fraction.m = {} THEN PyInf(sign = 1) ELSE PyNaN,
            string  |-> EmptyString]
       ELSE IF exponent = 0 THEN
           [literal |-> PyMul(unit, PyDivPow2(PyMul(PyPow2(-126), fraction), 23)),
            string  |-> <<unit, "*", "2^(-126)*(", frac, ")">>]
       ELSE
           [literal |-> PyMul(PyMul(unit, PyPow2(exponent - 127)), mantissa),
            string  |-> <<unit, "*", "2^(", exponent, " - 127)*", "(", mantissa, ")">>]

\* What a raised OverflowError leaves in place of a value.
OverflowError == [kind |-> "OverflowError", neg |-> FALSE, m |-> {}, e |-> 0]

\* int(struct.pack('>f', value).hex(), 16): the bits of the nearest single, or
\* OverflowError when a finite value rounds beyond the largest single.
PackFloat(value) ==
    LET signbit == IF value.neg THEN {31} ELSE {}
    IN IF value.kind = "inf" THEN PyInt(FALSE, signbit \cup (23..30))
       ELSE IF value.kind = "nan" THEN PyInt(FALSE, 22..30)
       ELSE IF value.m = {} THEN PyInt(FALSE, signbit)
       ELSE
         LET abs     == {i + value.e : i \in value.m}
             top     == Max(abs)
             quantum == IF top - 23 > -149 THEN top - 23 ELSE -149
             rounded == RoundHalfEven(abs, quantum)
         IN IF rounded = {} THEN PyInt(FALSE, signbit)
            ELSE LET hi == Max(rounded)
                 IN IF hi > 127 THEN OverflowError
                    ELSE IF hi >= -126 THEN
                        PyInt(FALSE, signbit
                                \cup {i + 23 : i \in BitsOf(hi + 127)}
                                \cup {i - (hi - 23) : i \in rounded \ {hi}})
                    ELSE PyInt(FALSE, signbit \cup {i + 149 : i \in rounded})

-----------------------------------------------------------------------------
(* BinaryTableItem, ResultField and BinaryView.  A method is an operator    *)
(* from the state it reads, a record s of the fields below, to the state    *)
(* it leaves.                                                               *)
(*                                                                          *)
(* table_elements, the list of BinaryTableItems, is kept by attribute: n    *)
(* is its length, and value, is_bit_limit and is_pressed are the sets of    *)
(* the positions of the items that have the attribute set.  The item at     *)
(* position p has index p: _populate_table_* numbers the items as it        *)
(* appends them.                                                            *)

MODE_FLOAT == 1

MODE_INT == 2

\* None where an index is expected.
NoIndex == -1

\* None where an error message is expected.
NoMessage == "None"

\* A str passed where a number is expected.
PyStr(t) == [kind |-> "str", text |-> t]

\* ResultField.set_result: the text shown, as its parts.
set_result(as_unsigned, as_signed, as_flt, message) ==
    LET flt == to_float(as_unsigned)
    IN IF message # NoMessage THEN
           [error |-> message, unsigned |-> None, shown |-> None,
            string |-> EmptyString]
       ELSE
           [error    |-> NoMessage,
            unsigned |-> as_unsigned,
            shown    |-> IF as_flt # None THEN flt.literal
                         ELSE IF as_signed # None THEN as_signed
                         ELSE as_unsigned,
            string   |-> IF as_flt # None THEN flt.string ELSE EmptyString]

\* The number of items one loop of _populate_table_* appends: one per column
\* that is no spacer.
PopulateRow(n_cols, spacers) ==
    Cardinality({col \in 0..(n_cols - 1) : col \notin spacers})

_populate_table_float(n_cols) == PopulateRow(n_cols, {32, 23})

_populate_table_int(n_cols) ==
    PopulateRow(n_cols, {8, 17, 26}) + PopulateRow(n_cols, {8, 17, 26})

set_new_bit_width(s, n) ==
    IF n \notin {32, 64} THEN s
    ELSE
      LET width     == n \div 2
          n_spacers == width \div 8 - 1
          n_cols    == width + n_spacers
      IN [s EXCEPT !.n_bits = n,
                   !.table_elements =
                       [n            |-> IF s.mode = MODE_FLOAT
                                         THEN _populate_table_float(34)
                                         ELSE _populate_table_int(n_cols),
                        value        |-> {},
                        is_bit_limit |-> {},
                        is_pressed   |-> {}],
                   \* the cell it referred to went with the old table: it is
                   \* equal to no item of the new one
                   !.previously_clicked_cell = NoIndex]

\* new_mode that keeps the width it finds: a fault C8 tells apart.
new_mode_keep_width(s, m) ==
    IF m = s.mode THEN s
    ELSE set_new_bit_width([s EXCEPT !.mode = m], s.n_bits)

new_mode(s, m) ==
    IF m = s.mode THEN s
    ELSE set_new_bit_width([s EXCEPT !.mode = m], 32)

\* The index of the last item whose is_bit_limit is set.
get_sign_bit_index(s) ==
    IF s.table_elements.is_bit_limit = {} THEN NoIndex
    ELSE Max(s.table_elements.is_bit_limit)

\* _twos_complement with a mask one bit short: a fault C2 tells apart.
_twos_complement_short_mask(onesComplement, nBits) ==
    IF ~TestBit(onesComplement, nBits - 1) THEN onesComplement
    ELSE PyNeg(LowBits(PyNeg(onesComplement), nBits - 1))

\* _twos_complement testing bit nBits for the sign: a fault C3 tells apart.
_twos_complement_wrong_bit(onesComplement, nBits) ==
    IF ~TestBit(onesComplement, nBits) THEN onesComplement
    ELSE PyNeg(LowBits(PyNeg(onesComplement), nBits))

_twos_complement(onesComplement, nBits) ==
    IF ~TestBit(onesComplement, nBits - 1) THEN onesComplement
    ELSE PyNeg(LowBits(PyNeg(onesComplement), nBits))

get_value(s) ==
    LET as_uint   == PyInt(FALSE, s.table_elements.value) \* sum of 1 << item.index
        bit_limit == get_sign_bit_index(s)
    IN [as_uint   |-> as_uint,
        as_signed |-> IF bit_limit # NoIndex
                      THEN _twos_complement(as_uint, bit_limit + 1) ELSE None,
        as_float  |-> IF s.mode = MODE_FLOAT THEN to_float(as_uint).literal ELSE None]

\* The one observer is ResultField.set_result.
_callback(s) ==
    LET v == get_value(s)
    IN [s EXCEPT !.binary_result =
                     set_result(v.as_uint, v.as_signed, v.as_float, s.error_message),
                 !.error_message = NoMessage]

OutOfRangeMessage(s) == "Out of " \o ToString(s.n_bits) \o " bit range"

\* set_value without its loop over set_is_bit_limit(False): a fault C7 tells
\* apart.
ResetBitLimitsSkipped(items) == items

\* The items with every is_bit_limit cleared.
ResetBitLimits(items) == [items EXCEPT !.is_bit_limit = {}]

\* The items with table_elements[-1].is_bit_limit set.
MarkLast(items) == [items EXCEPT !.is_bit_limit = @ \cup {items.n - 1}]

\* The items with table_elements[bit] forced to bit `bit` of value, for bit
\* in range(n).
ForceBits(items, value, n) ==
    [items EXCEPT !.value = (@ \ (0..(n - 1))) \cup LowBits(value, n).m]

\* set_value; it leaves s.raised set when struct.pack raised out of it, and
\* every other path ends in _callback().
set_value(s, value) ==
    LET is_str == value.kind = "str"
        no_int == ~is_str /\ s.mode = MODE_INT /\ ~is_integer(value)
        packed == IF s.mode = MODE_FLOAT THEN PackFloat(value) ELSE value
        v      == int(packed)
        reset  == [s EXCEPT !.table_elements = ResetBitLimits(@)]
    IN IF ~is_str /\ ~no_int /\ packed = OverflowError
       THEN [s EXCEPT !.raised = TRUE]
       ELSE _callback(
           IF is_str THEN [s EXCEPT !.error_message = value.text]
           ELSE IF no_int THEN
               [s EXCEPT !.error_message = "\nCannot represent float in int mode"]
           ELSE IF AtLeastPow2(v, s.n_bits) THEN
               [reset EXCEPT !.error_message = OutOfRangeMessage(s)]
           ELSE
               [reset EXCEPT !.table_elements =
                   ForceBits(IF v.neg THEN MarkLast(@) ELSE @, v, s.n_bits)])

\* set_sign_bit_index without its else branch, which clears the other items:
\* a fault C6 tells apart.
MoveBitLimitKeepOthers(items, index) ==
    [items EXCEPT !.is_bit_limit =
        IF index \in @ THEN @ \ {index} ELSE @ \cup ({index} \cap (0..(items.n - 1)))]

\* BinaryTableItem.toggle_is_bit_limit at the index, set_is_bit_limit(False) elsewhere.
MoveBitLimit(items, index) ==
    [items EXCEPT !.is_bit_limit =
        IF index \in @ THEN {} ELSE {index} \cap (0..(items.n - 1))]

set_sign_bit_index(s, index) ==
    _callback([s EXCEPT !.table_elements = MoveBitLimit(@, index)])

\* BinaryTableItem._toggle of the item at table_elements[index].
ToggleItem(items, index) ==
    [items EXCEPT !.value = IF index \in @ THEN @ \ {index} ELSE @ \cup {index}]

\* mousePressEvent on the BinaryTableItem of the given index.
mousePressEvent(s, index, button) ==
    IF button = "LeftButton" THEN
        _callback([s EXCEPT !.table_elements = ToggleItem(@, index),
                            !.previously_clicked_cell = index])
    ELSE IF button = "RightButton" /\ s.mode = MODE_INT THEN
        set_sign_bit_index([s EXCEPT !.previously_clicked_cell = index], index)
    ELSE s

\* BinaryTableItem.notify_entered_while_pressed of the item at the index.
notify_entered_while_pressed(items, index) ==
    [(IF index \notin items.is_pressed THEN ToggleItem(items, index) ELSE items)
        EXCEPT !.is_pressed = @ \ {index}]

\* _on_item_entered on the BinaryTableItem of the given index.
_on_item_entered(s, index) ==
    IF index = s.previously_clicked_cell THEN s
    ELSE _callback([s EXCEPT !.table_elements =
                                 notify_entered_while_pressed(@, index)])

-----------------------------------------------------------------------------
(* InputLabel and MainWindow. *)

SyntaxError == [kind |-> "error", neg |-> FALSE, m |-> {}, e |-> 0]

\* InputLabel._on_changed with the line holding an expression that evaluates
\* to `expr` (a number, or SyntaxError when eval raises): an exception out of
\* eval, float or the observers is reported as '\nSyntax error'.
_on_changed(s, expr) ==
    LET tried == IF expr = SyntaxError THEN [s EXCEPT !.raised = TRUE]
                 ELSE set_value(s, float(expr))
    IN IF tried.raised
       THEN set_value([tried EXCEPT !.raised = FALSE], PyStr("\nSyntax error"))
       ELSE tried

\* InputLabel.reset: _callback(0.0).
reset(s) == set_value(s, PyFloat(FALSE, {}, 0))

\* if sign_bit: None and 0 are both false.
Truthy(sign_bit) == sign_bit # NoIndex /\ sign_bit # 0

on_64b_clicked(s, state) ==
    LET curr_val == get_value(s).as_uint
        sign_bit == get_sign_bit_index(s)
    IN IF state > 0 THEN
           LET loaded == set_value(set_new_bit_width(s, 64), float(curr_val))
           IN IF Truthy(sign_bit) THEN set_sign_bit_index(loaded, sign_bit)
              ELSE loaded
       ELSE
           LET new_val == LowBits(curr_val, 32)
               zeroed  == [s EXCEPT !.binary_result =
                              set_result(PyInt(FALSE, {}), None, None, NoMessage)]
               loaded  == set_value(set_new_bit_width(zeroed, 32), float(new_val))
           IN IF Truthy(sign_bit) /\ sign_bit < 32
              THEN set_sign_bit_index(loaded, sign_bit)
              ELSE loaded

\* on_flt_clicked, on the view and the 64 bit check box c; unchecking a checked
\* check_64b emits stateChanged(0) to on_64b_clicked before setChecked returns.
on_flt_clicked(s, c, state, expr) ==
    LET switched ==
            IF state > 0 THEN new_mode(s, MODE_FLOAT)
            ELSE new_mode(IF c.checked THEN on_64b_clicked(s, 0) ELSE s, MODE_INT)
    IN [view |-> _on_changed(switched, expr),           \* force_evaluation()
        c    |-> IF state > 0 THEN [c EXCEPT !.enabled = FALSE]
                 ELSE [checked |-> FALSE, enabled |-> TRUE]]

-----------------------------------------------------------------------------
(* The inputs of the model. *)

\* The cells the mouse is pressed on or dragged into: the lowest bit, the
\* lowest bit of a single's exponent, and the top bits of the two tables.
ClickCells == {0, 23, 31, 63}

\* 1, -1, 2^31, 2^32 - 1, 2^32, -(2^31 + 1), 2^53 + 1, 2^64 - 1, -(2^63 - 1), 2^64.
IntTexts ==
    {PyInt(FALSE, {0}), PyInt(TRUE, {0}), PyInt(FALSE, {31}), PyInt(FALSE, 0..31),
     PyInt(FALSE, {32}), PyInt(TRUE, {0, 31}), PyInt(FALSE, {0, DoublePrecision}),
     PyInt(FALSE, 0..63), PyInt(TRUE, 0..62), PyInt(FALSE, {64})}

\* 0.5, the least subnormal single, 2^128, -inf, nan.
FloatTexts ==
    {PyFloat(FALSE, {0}, -1), PyFloat(FALSE, {0}, -149), PyFloat(FALSE, {0}, 128),
     PyInf(TRUE), PyNaN}

\* What the expression in the input line evaluates to.
Texts == IntTexts \cup FloatTexts \cup {SyntaxError}

-----------------------------------------------------------------------------
(* The state machine: one action per user gesture. *)

View ==
    [mode |-> mode, n_bits |-> n_bits, table_elements |-> table_elements,
     error_message |-> error_message,
     previously_clicked_cell |-> previously_clicked_cell,
     binary_result |-> binary_result, raised |-> FALSE]

Commit(t) ==
    /\ mode' = t.mode
    /\ n_bits' = t.n_bits
    /\ table_elements' = t.table_elements
    /\ error_message' = t.error_message
    /\ previously_clicked_cell' = t.previously_clicked_cell
    /\ binary_result' = t.binary_result

\* MainWindow.__init__: BinaryView(32, MODE_INT), then input_field.reset().
Constructed ==
    reset(set_new_bit_width(
        [mode |-> MODE_INT, n_bits |-> 0,
         table_elements |-> [n |-> 0, value |-> {}, is_bit_limit |-> {},
                             is_pressed |-> {}],
         error_message |-> NoMessage, previously_clicked_cell |-> NoIndex,
         binary_result |-> set_result(None, None, None, ""), raised |-> FALSE],
        32))

Init ==
    /\ mode = Constructed.mode
    /\ n_bits = Constructed.n_bits
    /\ table_elements = Constructed.table_elements
    /\ error_message = Constructed.error_message
    /\ previously_clicked_cell = Constructed.previously_clicked_cell
    /\ binary_result = Constructed.binary_result
    /\ text = PyInt(FALSE, {})
    /\ check_64b = [checked |-> FALSE, enabled |-> TRUE]
    /\ check_flt = FALSE
    /\ gestures = 0
    /\ last = [op |-> "__init__", index |-> NoIndex]

\* The user types an expression and presses return.
ReturnPressed ==
    \E expr \in Texts :
        /\ text' = expr
        /\ \E t \in {_on_changed(View, expr)} : Commit(t)
        /\ last' = [op |-> "_on_changed", index |-> NoIndex]
        /\ UNCHANGED <<check_64b, check_flt, gestures>>

\* The user clicks the Clear button.
ClearClicked ==
    /\ text' = PyInt(FALSE, {})
    /\ \E t \in {reset(View)} : Commit(t)
    /\ last' = [op |-> "reset", index |-> NoIndex]
    /\ UNCHANGED <<check_64b, check_flt, gestures>>

\* The user presses a mouse button on a bit of the table.
MousePressed ==
    \E index \in ClickCells, button \in {"LeftButton", "RightButton"} :
        /\ index < table_elements.n
        /\ gestures < MaxGestures
        /\ \E t \in {mousePressEvent(View, index, button)} : Commit(t)
        /\ gestures' = gestures + 1
        /\ last' = [op |-> button, index |-> index]
        /\ UNCHANGED <<text, check_64b, check_flt>>

\* The user drags the pressed mouse into a bit of the table.
ItemEntered ==
    \E index \in ClickCells :
        /\ index < table_elements.n
        /\ gestures < MaxGestures
        /\ \E t \in {_on_item_entered(View, index)} : Commit(t)
        /\ gestures' = gestures + 1
        /\ last' = [op |-> "_on_item_entered", index |-> index]
        /\ UNCHANGED <<text, check_64b, check_flt>>

\* The user clicks the 64 bit check box (it takes no click while disabled).
Clicked64b ==
    /\ check_64b.enabled
    /\ check_64b' = [check_64b EXCEPT !.checked = ~@]
    /\ \E t \in {on_64b_clicked(View, IF check_64b.checked THEN 0 ELSE 2)} : Commit(t)
    /\ last' = [op |-> "on_64b_clicked", index |-> NoIndex]
    /\ UNCHANGED <<text, check_flt, gestures>>

\* The user clicks the float check box.
ClickedFlt ==
    \E done \in {on_flt_clicked(View, check_64b, IF check_flt THEN 0 ELSE 2, text)} :
       /\ check_flt' = ~check_flt
       /\ check_64b' = done.c
       /\ Commit(done.view)
       /\ last' = [op |-> "on_flt_clicked", index |-> NoIndex]
       /\ UNCHANGED <<text, gestures>>

Next ==
    \/ ReturnPressed
    \/ ClearClicked
    \/ MousePressed
    \/ ItemEntered
    \/ Clicked64b
    \/ ClickedFlt

Spec == Init /\ [][Next]_vars

-----------------------------------------------------------------------------
(* The claims, each stated over the states and steps of Spec. *)

\* The handler that ran last was _on_changed on an integer-mode view with an
\* int in the input line: it called set_value(float(text)).
LoadedInt == last.op = "_on_changed" /\ mode = MODE_INT /\ text.kind = "int"

\* The handlers whose last call is set_value on the value of the input line.
Loads == {"_on_changed", "reset", "on_flt_clicked"}

\* C1: after an integer v with 0 <= v < 2^n_bits is loaded into an
\* integer-mode view, no error message is reported and get_value reads v back
\* as the unsigned value.
C1_RoundTrip ==
    (LoadedInt /\ ~text.neg /\ ~AtLeastPow2(text, n_bits))
        => /\ binary_result.error = NoMessage
           /\ get_value(View).as_uint = text

\* C2: for every width w >= 1 and every v with 0 <= v < 2^w (here the low w
\* bits of the table), _twos_complement(v, w) is v when bit w-1 of v is clear
\* and v - 2^w otherwise: a negative int whose magnitude added to v gives 2^w.
\* to_signed(0xFFFFFFFF, 32) = -1 and to_signed(0x7FFFFFFF, 32) = 2147483647.
C2_TwosComplement ==
    /\ \A w \in 1..n_bits :
         LET v == LowBits(get_value(View).as_uint, w)
             r == _twos_complement(v, w)
         IN IF (w - 1) \notin v.m THEN r = v
            ELSE r.kind = "int" /\ r.neg /\ AddMag(r.m, v.m) = {w}
    /\ _twos_complement(PyInt(FALSE, 0..31), 32) = PyInt(TRUE, {0})
    /\ _twos_complement(PyInt(FALSE, 0..30), 32) = PyInt(FALSE, 0..30)

\* All 32 bits are set with the marker on bit 31, and get_value reads -1.
C2_Witness ==
    /\ table_elements.value = 0..31
    /\ get_sign_bit_index(View) = 31
    /\ get_value(View).as_signed = PyInt(TRUE, {0})

\* C3: for w in {32, 64} and every v with 0 <= v < 2^w (the low w bits of the
\* table, and of its complement), _twos_complement(v, w) is negative if and
\* only if bit w-1 of v is set.
C3_NegativeIffTopBit ==
    \A w \in {32, 64} :
        \A bits \in {table_elements.value \cap (0..(w - 1)),
                     (0..(w - 1)) \ table_elements.value} :
            LET r == _twos_complement(PyInt(FALSE, bits), w)
            IN (r.neg /\ r.m # {}) <=> (w - 1) \in bits

\* A 64 bit table with bit 63 set and marked reads as a negative value.
C3_Witness ==
    /\ n_bits = 64
    /\ 63 \in table_elements.value
    /\ get_sign_bit_index(View) = 63
    /\ get_value(View).as_signed.neg

\* C4: after a negative integer v with -2^(n_bits-1) <= v < 0 is loaded into
\* an integer-mode view, the bits are those of v + 2^n_bits, the sign-bit
\* marker is on index n_bits-1 and get_value reads v as the signed value.
C4_NegativeLoad ==
    (LoadedInt /\ text.neg /\ ~MagLess({n_bits - 1}, text.m))
        => /\ table_elements.value = LowBits(text, n_bits).m
           /\ get_sign_bit_index(View) = n_bits - 1
           /\ get_value(View).as_signed = text

\* C5: a step that loads an integer >= 2^n_bits into an integer-mode view
\* reports 'Out of <n_bits> bit range' and leaves every bit and the sign-bit
\* marker as they were.
C5_OutOfRangeUntouched ==
    [][(last'.op = "_on_changed" /\ mode = MODE_INT /\ text'.kind = "int"
            /\ AtLeastPow2(text', n_bits))
        => /\ binary_result'.error = OutOfRangeMessage(View)
           /\ table_elements' = table_elements]_vars

\* C6: at most one item of the table has is_bit_limit set.
C6_AtMostOneBitLimit == Cardinality(table_elements.is_bit_limit) <= 1

\* -1 was loaded, which marks bit 31, and a right click then moved the marker
\* to bit 0.
C6_Witness ==
    /\ last = [op |-> "RightButton", index |-> 0]
    /\ text = PyInt(TRUE, {0})
    /\ table_elements.value = 0..31
    /\ table_elements.is_bit_limit = {0}

\* C7, as stated: a step that ends in set_value accepting a value leaves no
\* sign-bit marker, and the marker comes onto an index only by a right click.
C7_Original ==
    [][/\ (last'.op \in Loads /\ binary_result'.error = NoMessage)
            => get_sign_bit_index(View') = NoIndex
       /\ get_sign_bit_index(View') \notin {NoIndex, get_sign_bit_index(View)}
            => last'.op = "RightButton"]_vars

\* C7, amended: a step that ends in set_value accepting a value leaves the
\* marker on index n_bits-1 when the value is negative and the mode integer,
\* and leaves no marker otherwise; the marker comes onto an index only by a
\* right click or by such a load of a negative value.
C7_MarkerAfterLoad ==
    [][/\ (last'.op \in Loads /\ binary_result'.error = NoMessage)
            => get_sign_bit_index(View') =
                   IF mode' = MODE_INT /\ text'.neg THEN n_bits' - 1 ELSE NoIndex
       /\ get_sign_bit_index(View') \notin {NoIndex, get_sign_bit_index(View)}
            => \/ last'.op = "RightButton"
               \/ last'.op \in Loads /\ mode' = MODE_INT /\ text'.neg]_vars

\* -1 was loaded into a 64 bit view after a mouse gesture, and bit 63 is marked.
C7_Witness ==
    /\ last.op = "_on_changed"
    /\ gestures > 0
    /\ text = PyInt(TRUE, {0})
    /\ n_bits = 64
    /\ binary_result.error = NoMessage
    /\ get_sign_bit_index(View) = 63

\* C8: n_bits is 32 or 64, the table has n_bits items, and n_bits is 32 in
\* float mode.
C8_Width ==
    /\ n_bits \in {32, 64}
    /\ table_elements.n = n_bits
    /\ mode = MODE_FLOAT => n_bits = 32

\* Float mode was entered with the 64 bit box ticked: the view is 32 bits wide.
C8_Witness ==
    /\ mode = MODE_FLOAT
    /\ check_64b.checked
    /\ n_bits = 32
    /\ table_elements.n = 32

\* C9: to_float of a 32 bit pattern (the low 32 bits of the table, and of its
\* complement) with sign = bit 31, exponent = bits 30..23 and fraction = bits
\* 22..0 is +-infinity for exponent 0xFF and fraction 0, NaN for exponent 0xFF
\* and another fraction, (-1)^sign * fraction * 2^-149 for exponent 0 and
\* (-1)^sign * (2^23 + fraction) * 2^(exponent - 150) otherwise; the breakdown
\* is empty exactly for exponent 0xFF; 0x3F800000 is 1.0.
C9_Classification ==
    /\ \A bits \in {table_elements.value \cap (0..31),
                    (0..31) \ table_elements.value} :
         LET decoded  == to_float(PyInt(FALSE, bits))
             sign     == 31 \in bits
             exponent == Val({i - 23 : i \in bits \cap (23..30)})
             fraction == bits \cap (0..22)
         IN /\ decoded.literal =
                  IF exponent = 255
                  THEN IF fraction = {} THEN PyInf(sign) ELSE PyNaN
                  ELSE IF exponent = 0 THEN PyFloat(sign, fraction, -149)
                  ELSE PyFloat(sign, fraction \cup {23}, exponent - 150)
            /\ (decoded.string = EmptyString) <=> (exponent = 255)
    /\ to_float(PyInt(FALSE, 23..29)).literal = PyFloat(FALSE, {0}, 0)

\* A float-mode view shows the least subnormal, 2^-149, with its breakdown.
C9_Witness ==
    /\ mode = MODE_FLOAT
    /\ table_elements.value = {0}
    /\ binary_result.shown = PyFloat(FALSE, {0}, -149)
    /\ binary_result.string # EmptyString

\* C10: a click on the 64 bit check box in integer mode keeps the unsigned
\* value and the marked index when it expands a 32 bit view, and keeps the
\* low 32 bits and a marked index below 32 when it contracts a 64 bit view.
C10_WidthToggleKeeps ==
    [][(last'.op = "on_64b_clicked" /\ mode = MODE_INT)
        => IF n_bits = 32
           THEN /\ n_bits' = 64
                /\ table_elements'.value = table_elements.value
                /\ get_sign_bit_index(View') = get_sign_bit_index(View)
           ELSE /\ n_bits' = 32
                /\ table_elements'.value = table_elements.value \cap (0..31)
                /\ get_sign_bit_index(View) \in 0..31
                     => get_sign_bit_index(View') = get_sign_bit_index(View)]_vars

\* C11: in every state with a sign bit marked at index k, the unsigned value
\* get_value passes to _twos_complement with width k+1 is below 2^(k+1), and
\* the signed value it reports lies in [-2^k, 2^k - 1].
C11_InDomain ==
    LET k == get_sign_bit_index(View)
        v == get_value(View)
    IN k # NoIndex
        => /\ ~AtLeastPow2(v.as_uint, k + 1)
           /\ IF v.as_signed.neg THEN ~MagLess({k}, v.as_signed.m)
              ELSE MagLess(v.as_signed.m, {k})

\* C12: after an integer v is loaded into an integer-mode view and no error
\* message is reported, get_value reads v back: as the unsigned value when
\* v >= 0, as the signed value when v < 0.
C12_Faithful ==
    (LoadedInt /\ binary_result.error = NoMessage)
        => IF text.neg THEN get_value(View).as_signed = text
           ELSE get_value(View).as_uint = text

=============================================================================
